---- MODULE Spec2Model ----
(***************************************************************************)
(* pyside6-qml-stubgen: the incremental rebuild engine.                     *)
(*                                                                         *)
(* The model follows one output directory through a sequence of tool runs. *)
(* Between runs the environment touches, deletes and creates source files. *)
(* A run enumerates the python files below the input directories, loads    *)
(* metadata.json (load_modules_metadata) and executes                      *)
(* detect_new_and_dirty_files: the seeding loop, one action per full scan  *)
(* of the propagation loop, then the reachability loop and the             *)
(* construction of the three results.  Control then returns to             *)
(* import_dirty_modules, whose assignment of the result                    *)
(* (src/pyside6_qml_stubgen/__init__.py:551) is modelled as Python         *)
(* executes it.                                                            *)
(*                                                                         *)
(* Four parts of the engine are also followed on their own, each under a   *)
(* specification of its own over the same variables: the metadata store    *)
(* (StoreSpec: save_modules_metadata in its two steps, a process killed in *)
(* between, load_modules_metadata on whatever the file then holds), the    *)
(* dependency tracer (TracerSpec: the wrapper put around the import        *)
(* function), the artifact layer (RegistrarSpec: one call of               *)
(* update_qmlregistrar_files over the files that earlier runs left, with   *)
(* the snapshot of this run already saved) and the fold of the imported    *)
(* modules into the snapshot (FoldSpec: calls of                           *)
(* recursive_module_metadata_addition with its arguments in the order of   *)
(* its signature).                                                         *)
(***************************************************************************)
EXTENDS Integers, Sequences, FiniteSets, TLC

(***************************************************************************)
(* Bounds of the model.                                                    *)
(***************************************************************************)
\* largest modification time a file can get (0 stands for "no such file")
MaxMTime == 2
\* largest number of dependency edges of the snapshot found in metadata.json
MaxEdges == 3
\* number of tool runs followed
MaxRuns == 2
\* number of files the environment touches, deletes or creates, each of them once
MaxChanges == 2

(***************************************************************************)
(* Module names, paths and the values of the data model.                   *)
(***************************************************************************)
Names == {"a", "b", "c"}

\* the order of str, as sorted() uses it
NameRank(n) == CASE n = "a" -> 1 [] n = "b" -> 2 [] n = "c" -> 3

\* the file that backs a module when it is imported
PathOf(n) == n \o ".py"

\* a source file that backs none of the modules above
NewPath == "n.py"

Paths == {PathOf(n) : n \in Names} \cup {NewPath}

\* the order in which rglob enumerates the files
PathRank(p) == CASE p = "a.py" -> 1 [] p = "b.py" -> 2 [] p = "c.py" -> 3 [] p = "n.py" -> 4

\* Python's None, as a value of dict[str, str | None]
None == "None"

\* Python's None, as a value of Mapping[str, PythonModuleMetadata | None]: a tombstone
NoneMeta == [is_none |-> TRUE]

PythonModuleMetadata(mtime, path, deps) ==
    [modification_time |-> mtime, path |-> path, dependencies |-> deps]

\* a dict is its keys in insertion order and its values
PythonModulesMetadata(keys, meta) == [keys |-> keys, meta |-> meta]

EmptyModules == PythonModulesMetadata(<<>>, <<>>)

Range(s) == {s[i] : i \in 1..Len(s)}

\* sorted(S) for a set of module names
RECURSIVE Sorted(_)
Sorted(S) ==
    IF S = {} THEN <<>>
    ELSE LET least == CHOOSE n \in S : \A m \in S : NameRank(n) <= NameRank(m)
         IN  <<least>> \o Sorted(S \ {least})

\* the paths of S in enumeration order
RECURSIVE Enumerate(_)
Enumerate(S) ==
    IF S = {} THEN <<>>
    ELSE LET first == CHOOSE p \in S : \A q \in S : PathRank(p) <= PathRank(q)
         IN  <<first>> \o Enumerate(S \ {first})

Reverse(s) == [i \in 1..Len(s) |-> s[Len(s) + 1 - i]]

\* the insertion orders of a dict with the keys S that are told apart: with the names
\* interchangeable, the keys in the order of sorted() and in the opposite order give every
\* arrangement of a scan over the keys and a scan over a sorted dependency list
KeyOrders(S) == {Sorted(S), Reverse(Sorted(S))}

(***************************************************************************)
(* The file system: disk[p] is the modification time of p, 0 when p does   *)
(* not exist.                                                              *)
(***************************************************************************)
\* pathlib.Path.exists
Exists(dsk, p) == dsk[p] # 0

\* pathlib.Path.stat().st_mtime
StMTime(dsk, p) == dsk[p]

(***************************************************************************)
(* Metadata store (dirty_file_detection.py).  The content of metadata.json *)
(* is the JSON text that dump_json produces, as its sequence of tokens:    *)
(* braces, brackets, null, quoted strings and floats.  validate_json reads *)
(* such a text back; the texts it is given here are those dump_json wrote  *)
(* and their beginnings, so the fields come in the order of the dataclass. *)
(***************************************************************************)
\* _version.__version__
CurrentVersion == "current"

\* the version of another release of the tool
OldVersion == "old"

\* line 21: generating_version: str = ""
DefaultVersion == ""

\* the dataclass PythonModulesMetadata: the dict of the modules and generating_version
Metadata(modules, generating_version) ==
    [modules |-> modules, generating_version |-> generating_version]

NoFile == [exists |-> FALSE]

File(bytes) == [exists |-> TRUE, bytes |-> bytes]

\* the strings a metadata.json of the model holds
Strings ==
    Names \cup Paths \cup {CurrentVersion, OldVersion, DefaultVersion}
        \cup {"modules", "generating_version", "modification_time", "path", "dependencies"}

\* a JSON string
Quote(s) == "\"" \o s \o "\""

\* a JSON number, as a float is written
Float(x) == ToString(x) \o ".0"

\* the JSON strings and what they stand for
Unquoted == [tok \in {Quote(s) : s \in Strings} |-> CHOOSE s \in Strings : Quote(s) = tok]

IsString(tok) == tok \in DOMAIN Unquoted

Unquote(tok) == Unquoted[tok]

\* the JSON numbers and what they stand for
Parsed == [tok \in {Float(x) : x \in 0..MaxMTime} |-> CHOOSE x \in 0..MaxMTime : Float(x) = tok]

IsFloat(tok) == tok \in DOMAIN Parsed

ParseFloat(tok) == Parsed[tok]

DumpMeta(meta) ==
    IF meta = NoneMeta
    THEN <<"null">>
    ELSE <<"{", Quote("modification_time"), Float(meta.modification_time),
           Quote("path"), Quote(meta.path), Quote("dependencies"), "[">>
         \o [i \in 1..Len(meta.dependencies) |-> Quote(meta.dependencies[i])]
         \o <<"]", "}">>

RECURSIVE DumpItems(_, _)
DumpItems(modules, i) ==
    IF i > Len(modules.keys) THEN <<>>
    ELSE <<Quote(modules.keys[i])>> \o DumpMeta(modules.meta[modules.keys[i]])
         \o DumpItems(modules, i + 1)

\* PYTHON_MODULES_METADATA_TYPE_ADAPTER.dump_json
dump_json(metadata) ==
    <<"{", Quote("modules"), "{">> \o DumpItems(metadata.modules, 1)
    \o <<"}", Quote("generating_version"), Quote(metadata.generating_version), "}">>

\* the token at position i, the end of the text behind the last one
Tok(b, i) == IF i \in 1..Len(b) THEN b[i] ELSE "<eof>"

Rejected == [ok |-> FALSE, pos |-> 0, value |-> NoneMeta]

\* a list of strings from position i on, up to the closing bracket
RECURSIVE ParseStrings(_, _, _)
ParseStrings(b, i, acc) ==
    IF Tok(b, i) = "]" THEN [ok |-> TRUE, pos |-> i + 1, value |-> acc]
    ELSE IF IsString(Tok(b, i)) THEN ParseStrings(b, i + 1, Append(acc, Unquote(Tok(b, i))))
    ELSE Rejected

\* PythonModuleMetadata | None at position i
ParseMeta(b, i) ==
    IF Tok(b, i) = "null" THEN [ok |-> TRUE, pos |-> i + 1, value |-> NoneMeta]
    ELSE IF /\ Tok(b, i) = "{"
            /\ Tok(b, i + 1) = Quote("modification_time")
            /\ IsFloat(Tok(b, i + 2))
            /\ Tok(b, i + 3) = Quote("path")
            /\ IsString(Tok(b, i + 4))
            /\ Tok(b, i + 5) = Quote("dependencies")
            /\ Tok(b, i + 6) = "["
         THEN LET deps == ParseStrings(b, i + 7, <<>>)
              IN  IF deps.ok /\ Tok(b, deps.pos) = "}"
                  THEN [ok |-> TRUE, pos |-> deps.pos + 1,
                        value |-> PythonModuleMetadata(ParseFloat(b[i + 2]),
                                                       Unquote(b[i + 4]), deps.value)]
                  ELSE Rejected
         ELSE Rejected

\* the items of the modules object from position i on, up to the closing brace
RECURSIVE ParseItems(_, _, _, _)
ParseItems(b, i, keys, meta) ==
    IF Tok(b, i) = "}"
    THEN [ok |-> TRUE, pos |-> i + 1, value |-> PythonModulesMetadata(keys, meta)]
    ELSE IF IsString(Tok(b, i))
         THEN LET name == Unquote(Tok(b, i))
                  m == ParseMeta(b, i + 1)
              IN  IF m.ok
                  THEN ParseItems(b, m.pos, Append(keys, name),
                                  [n \in DOMAIN meta \cup {name} |->
                                      IF n = name THEN m.value ELSE meta[n]])
                  ELSE Rejected
         ELSE Rejected

\* PYTHON_MODULES_METADATA_TYPE_ADAPTER.validate_json: the value, or pydantic.ValidationError
validate_json(b) ==
    IF Tok(b, 1) = "{" /\ Tok(b, 2) = Quote("modules") /\ Tok(b, 3) = "{"
    THEN LET items == ParseItems(b, 4, <<>>, <<>>)
         IN  IF /\ items.ok
                /\ Tok(b, items.pos) = Quote("generating_version")
                /\ IsString(Tok(b, items.pos + 1))
                /\ Tok(b, items.pos + 2) = "}"
                /\ Len(b) = items.pos + 2
             THEN [raised |-> "none",
                   value |-> Metadata(items.value, Unquote(b[items.pos + 1]))]
             ELSE [raised |-> "ValidationError", value |-> Metadata(EmptyModules, DefaultVersion)]
         ELSE [raised |-> "ValidationError", value |-> Metadata(EmptyModules, DefaultVersion)]

\* a metadata.json that this release of the tool accepts
MetadataJson(metadata) == File(dump_json(Metadata(metadata, CurrentVersion)))

\* a mutation of load_modules_metadata: generating_version is not compared
load_modules_metadata_AnyVersion(file) ==
    IF file.exists
    THEN LET metadata == validate_json(file.bytes)
         IN  [raised |-> metadata.raised, value |-> metadata.value.modules]
    ELSE [raised |-> "none", value |-> EmptyModules]

\* lines 27-34: the modules of the value returned, or the exception raised
load_modules_metadata(file) ==
    IF file.exists
    THEN LET metadata == validate_json(file.bytes)
         IN  IF metadata.raised # "none"
             THEN [raised |-> metadata.raised, value |-> EmptyModules]
             ELSE IF metadata.value.generating_version = CurrentVersion
             THEN [raised |-> "none", value |-> metadata.value.modules]
             ELSE [raised |-> "none", value |-> EmptyModules]
    ELSE [raised |-> "none", value |-> EmptyModules]

(***************************************************************************)
(* detect_new_and_dirty_files, phase by phase.                             *)
(***************************************************************************)
\* a mutation of SeedDirty: a vanished file is not noticed
SeedDirty_IgnoreMissing(modules, dsk) ==
    [name \in Range(modules.keys) |->
        IF /\ modules.meta[name] # NoneMeta
           /\ Exists(dsk, modules.meta[name].path)
           /\ modules.meta[name].modification_time # StMTime(dsk, modules.meta[name].path)
        THEN name
        ELSE None]

\* a mutation of SeedDirty: a tombstone is seeded dirty
SeedDirty_TombstoneDirty(modules, dsk) ==
    [name \in Range(modules.keys) |->
        IF \/ modules.meta[name] = NoneMeta
           \/ ~Exists(dsk, modules.meta[name].path)
           \/ modules.meta[name].modification_time # StMTime(dsk, modules.meta[name].path)
        THEN name
        ELSE None]

\* lines 90-98: module_dirty after the initialisation loop
SeedDirty(modules, dsk) ==
    [name \in Range(modules.keys) |->
        IF /\ modules.meta[name] # NoneMeta
           /\ \/ ~Exists(dsk, modules.meta[name].path)
              \/ modules.meta[name].modification_time # StMTime(dsk, modules.meta[name].path)
        THEN name
        ELSE None]

\* lines 106-110: the index of the first dependency that is marked dirty, 0 if none
RECURSIVE FirstDirtyDep(_, _, _)
FirstDirtyDep(deps, md, i) ==
    IF i > Len(deps) THEN 0
    ELSE IF md[deps[i]] # None THEN i
    ELSE FirstDirtyDep(deps, md, i + 1)

\* lines 104-110: the for loop over modules.items() from position i on, marking in place
RECURSIVE Scan(_, _, _, _)
Scan(modules, md, fc, i) ==
    IF i > Len(modules.keys)
    THEN [module_dirty |-> md, found_change |-> fc]
    ELSE LET name == modules.keys[i]
             meta == modules.meta[name]
         IN  IF md[name] = None /\ meta # NoneMeta
             THEN LET d == FirstDirtyDep(meta.dependencies, md, 1)
                  IN  IF d # 0
                      THEN Scan(modules,
                                [md EXCEPT ![name] = md[meta.dependencies[d]]],
                                TRUE, i + 1)
                      ELSE Scan(modules, md, fc, i + 1)
             ELSE Scan(modules, md, fc, i + 1)

\* a mutation of PropagatePass: the pass never reports a change, so the loop stops after one pass
PropagatePass_SinglePass(modules, md) ==
    [module_dirty |-> Scan(modules, md, FALSE, 1).module_dirty, found_change |-> FALSE]

\* the first position from i on that a pass would mark, 0 if none
RECURSIVE FirstMarkable(_, _, _)
FirstMarkable(modules, md, i) ==
    IF i > Len(modules.keys) THEN 0
    ELSE IF /\ md[modules.keys[i]] = None
            /\ modules.meta[modules.keys[i]] # NoneMeta
            /\ FirstDirtyDep(modules.meta[modules.keys[i]].dependencies, md, 1) # 0
         THEN i
         ELSE FirstMarkable(modules, md, i + 1)

\* a mutation of PropagatePass: the break leaves the scan, so a pass marks one module at most
PropagatePass_BreakOuter(modules, md) ==
    LET i == FirstMarkable(modules, md, 1)
    IN  IF i = 0
        THEN [module_dirty |-> md, found_change |-> FALSE]
        ELSE LET deps == modules.meta[modules.keys[i]].dependencies
             IN  [module_dirty |->
                      [md EXCEPT ![modules.keys[i]] = md[deps[FirstDirtyDep(deps, md, 1)]]],
                  found_change |-> TRUE]

\* the scan of lines 104-110 with line 108 storing the dependency itself
RECURSIVE ScanDirect(_, _, _, _)
ScanDirect(modules, md, fc, i) ==
    IF i > Len(modules.keys)
    THEN [module_dirty |-> md, found_change |-> fc]
    ELSE LET name == modules.keys[i]
             meta == modules.meta[name]
         IN  IF md[name] = None /\ meta # NoneMeta
             THEN LET d == FirstDirtyDep(meta.dependencies, md, 1)
                  IN  IF d # 0
                      THEN ScanDirect(modules,
                                      [md EXCEPT ![name] = meta.dependencies[d]],
                                      TRUE, i + 1)
                      ELSE ScanDirect(modules, md, fc, i + 1)
             ELSE ScanDirect(modules, md, fc, i + 1)

\* a mutation of PropagatePass: the cause recorded is the dependency through which the
\* dirtiness arrived
PropagatePass_DirectCause(modules, md) == ScanDirect(modules, md, FALSE, 1)

\* lines 103-110: one iteration of the while loop, a full scan
PropagatePass(modules, md) == Scan(modules, md, FALSE, 1)

\* lines 113-117: the dict comprehension, a later key replacing an earlier one with the same path
ModulePathToName(modules) ==
    LET recs == {i \in 1..Len(modules.keys) : modules.meta[modules.keys[i]] # NoneMeta}
        paths == {modules.meta[modules.keys[i]].path : i \in recs}
        last(p) == CHOOSE i \in recs :
                       /\ modules.meta[modules.keys[i]].path = p
                       /\ \A j \in recs : modules.meta[modules.keys[j]].path = p => j <= i
    IN  [p \in paths |-> modules.keys[last(p)]]

\* dict.get
Get(d, k) == IF k \in DOMAIN d THEN d[k] ELSE None

\* lines 118-122
InitialReachable(files, mptn) ==
    {Get(mptn, files[i]) : i \in 1..Len(files)} \ {None}

\* lines 126-129: one iteration of the reachability loop
ReachStep(modules, previous) ==
    previous \cup UNION {Range(modules.meta[name].dependencies) :
                            name \in {n \in previous : modules.meta[n] # NoneMeta}}

\* lines 124-129: the reachability loop, run to its end
RECURSIVE ReachLoop(_, _, _)
ReachLoop(modules, reachable, previous) ==
    IF reachable = previous THEN reachable
    ELSE ReachLoop(modules, ReachStep(modules, reachable), reachable)

\* lines 133-141: the tag of a file
Reason(module_name, dirty_dep) ==
    IF module_name = None THEN "new"
    ELSE IF dirty_dep = module_name THEN "changed"
    ELSE "dependency " \o dirty_dep \o " changed"

\* a mutation of DirtyFiles: the clean files are tagged too
RECURSIVE DirtyFiles_KeepClean(_, _, _, _)
DirtyFiles_KeepClean(files, mptn, md, i) ==
    IF i > Len(files) THEN <<>>
    ELSE LET cf == files[i]
             module_name == Get(mptn, cf)
         IN  <<[path |-> cf,
                reason |-> Reason(module_name,
                                  IF module_name = None THEN None ELSE md[module_name])]>>
             \o DirtyFiles_KeepClean(files, mptn, md, i + 1)

\* lines 132-145: dirty_files, a dict in the order of current_files
RECURSIVE DirtyFiles(_, _, _, _)
DirtyFiles(files, mptn, md, i) ==
    IF i > Len(files) THEN <<>>
    ELSE LET cf == files[i]
             module_name == Get(mptn, cf)
         IN  IF module_name = None
             THEN <<[path |-> cf, reason |-> Reason(None, None)]>>
                  \o DirtyFiles(files, mptn, md, i + 1)
             ELSE IF md[module_name] # None
             THEN <<[path |-> cf, reason |-> Reason(module_name, md[module_name])]>>
                  \o DirtyFiles(files, mptn, md, i + 1)
             ELSE DirtyFiles(files, mptn, md, i + 1)

\* the keys of a dict comprehension over modules.items() that keeps the names in S
RECURSIVE FilterKeys(_, _)
FilterKeys(keys, S) ==
    IF keys = <<>> THEN <<>>
    ELSE IF Head(keys) \in S THEN <<Head(keys)>> \o FilterKeys(Tail(keys), S)
    ELSE FilterKeys(Tail(keys), S)

\* a mutation of CleanedModulesMetadata: the unreachable entries are kept
CleanedModulesMetadata_KeepUnreachable(modules, reachable, md) ==
    LET keep == {n \in Range(modules.keys) : md[n] = None}
    IN  PythonModulesMetadata(FilterKeys(modules.keys, keep),
                              [n \in keep |-> modules.meta[n]])

\* a mutation of CleanedModulesMetadata: the dirty entries are kept
CleanedModulesMetadata_KeepDirty(modules, reachable, md) ==
    LET keep == {n \in Range(modules.keys) : n \in reachable}
    IN  PythonModulesMetadata(FilterKeys(modules.keys, keep),
                              [n \in keep |-> modules.meta[n]])

\* lines 146-150
CleanedModulesMetadata(modules, reachable, md) ==
    LET keep == {n \in Range(modules.keys) : n \in reachable /\ md[n] = None}
    IN  PythonModulesMetadata(FilterKeys(modules.keys, keep),
                              [n \in keep |-> modules.meta[n]])

\* a mutation of DirtyPaths: only the paths of the current files are returned
DirtyPaths_OnlyCurrent(modules, md, files) ==
    {modules.meta[name].path :
        name \in {n \in DOMAIN md : /\ md[n] # None
                                    /\ modules.meta[n] # NoneMeta
                                    /\ modules.meta[n].path \in Range(files)}}

\* lines 154-158: the third result
DirtyPaths(modules, md, files) ==
    {modules.meta[name].path :
        name \in {n \in DOMAIN md : md[n] # None /\ modules.meta[n] # NoneMeta}}

\* lines 101-110: the propagation loop, run to its end
RECURSIVE PropagateLoop(_, _)
PropagateLoop(modules, md) ==
    LET r == PropagatePass(modules, md)
    IN  IF r.found_change THEN PropagateLoop(modules, r.module_dirty) ELSE r.module_dirty

\* lines 78-159: the function as a whole
detect_new_and_dirty_files(files, modules, dsk) ==
    LET md == PropagateLoop(modules, SeedDirty(modules, dsk))
        mptn == ModulePathToName(modules)
        reachable == ReachLoop(modules, InitialReachable(files, mptn), {})
    IN  <<DirtyFiles(files, mptn, md, 1),
          CleanedModulesMetadata(modules, reachable, md),
          DirtyPaths(modules, md, files)>>

(***************************************************************************)
(* import_dirty_modules (__init__.py).                                     *)
(***************************************************************************)
\* a mutation of RmTree: the output directory is removed whether or not a rebuild is forced
RmTree_Always(file, force) == NoFile

\* process, lines 701-703: the output directory is removed when it exists and
\* force_rebuild is set, and with it metadata.json
RmTree(file, force) == IF file.exists /\ force THEN NoFile ELSE file

\* line 551: "dirty_files, module_metadata = <value>", the unpacking of a tuple into two targets
UnpackTwo(value) ==
    IF Len(value) = 2
    THEN [raised |-> "none", dirty_files |-> value[1], module_metadata |-> value[2]]
    ELSE [raised |-> "ValueError"]

(***************************************************************************)
(* The dependency tracer (pyside_patching.py, patch_builtins): the         *)
(* function that stands in for builtins.__import__, old_fn being the       *)
(* import function it replaces.  A module is its name; the interpreter is  *)
(* sys.modules and info.module_dependencies.                               *)
(***************************************************************************)
\* the modules that can be imported: a plain module, a package and two of its submodules,
\* and the module whose file the tool imports
Universe == {"main", "lib", "pkg", "pkg.sub", "pkg.mod"}

IsPackage(m) == m = "pkg"

\* the package a submodule lies in
Parent(m) == CASE m = "pkg.sub" -> "pkg" [] m = "pkg.mod" -> "pkg" [] OTHER -> None

\* name.partition(".")[0]
TopLevel(m) == IF Parent(m) = None THEN m ELSE Parent(m)

Join(package, name) == IF name = "" THEN package ELSE package \o "." \o name

\* the import statements a module executes when it is loaded: pkg/__init__.py holds "import lib"
Body(m) ==
    IF m = "pkg" THEN <<[name |-> "lib", fromlist |-> <<>>, level |-> 0]>> ELSE <<>>

\* the attributes of the modules that are no modules: a class of pkg, a function of pkg.sub
Objects == {<<"pkg", "Thing">>, <<"pkg.sub", "x">>}

\* Python values: a str, an int, None
StrValue(s) == [type |-> "str", v |-> s]

IntValue(s) == [type |-> "int", v |-> s]

NoneValue == [type |-> "NoneType", v |-> "None"]

\* a Mapping[str, object] | None
Dict(items) == [kind |-> "dict", items |-> items]

NoDict == [kind |-> "None", items |-> {}]

\* bool(d)
Truthy(d) == d.kind = "dict" /\ d.items # {}

\* a or b
Or(a, b) == IF Truthy(a) THEN a ELSE b

\* d.get(k)
DictGet(d, k) ==
    IF \E it \in d.items : it[1] = k
    THEN (CHOOSE it \in d.items : it[1] = k)[2]
    ELSE NoneValue

\* the globals of the module m
ModuleGlobals(m) ==
    Dict({<<"__name__", StrValue(m)>>,
          <<"__package__", StrValue(IF IsPackage(m) THEN m
                               ELSE IF Parent(m) = None THEN "" ELSE Parent(m))>>})

\* defaultdict(set): d[k].add(v)
AddEdge(deps, k, v) ==
    [n \in DOMAIN deps \cup {k} |->
        IF n = k THEN (IF k \in DOMAIN deps THEN deps[k] ELSE {}) \cup {v} ELSE deps[n]]

\* the names that the body of m has bound to modules by a plain import
BoundModules(m) ==
    {TopLevel(Body(m)[i].name) :
        i \in {j \in 1..Len(Body(m)) : Body(m)[j].fromlist = <<>> /\ Body(m)[j].level = 0}}

\* getattr(mod, fromname, None): a module, another object, or None
GetAttr(st, m, a) ==
    IF IsPackage(m) /\ Join(m, a) \in st.sys_modules
    THEN [type |-> "module", v |-> Join(m, a)]
    ELSE IF a \in BoundModules(m) THEN [type |-> "module", v |-> a]
    ELSE IF <<m, a>> \in Objects THEN [type |-> "object", v |-> a]
    ELSE NoneValue

\* the absolute name an import resolves to, or the exception of the resolution
Resolve(name, globals, level) ==
    IF level = 0
    THEN IF name = "" THEN [raised |-> "ValueError", v |-> ""]
         ELSE [raised |-> "none", v |-> name]
    ELSE IF globals.kind = "None" THEN [raised |-> "KeyError", v |-> ""]
    ELSE LET package == DictGet(globals, "__package__")
             module == DictGet(globals, "__name__")
         IN  IF package.type = "str"
             THEN IF package.v = "" THEN [raised |-> "ImportError", v |-> ""]
                  ELSE [raised |-> "none", v |-> Join(package.v, name)]
             ELSE IF module.type = "str" /\ module.v \in Universe
             THEN IF IsPackage(module.v) THEN [raised |-> "none", v |-> Join(module.v, name)]
                  ELSE IF Parent(module.v) = None THEN [raised |-> "ImportError", v |-> ""]
                  ELSE [raised |-> "none", v |-> Join(Parent(module.v), name)]
             ELSE [raised |-> "KeyError", v |-> ""]

RECURSIVE orig_import(_, _, _, _, _, _)
RECURSIVE ExecBody(_, _, _)
RECURSIVE LoadModule(_, _)
RECURSIVE HandleFromlist(_, _, _, _)

\* the body of m from statement i on, each import going through the function that stands
\* in for builtins.__import__
ExecBody(st, m, i) ==
    IF i > Len(Body(m)) THEN st
    ELSE ExecBody(orig_import(st, Body(m)[i].name, ModuleGlobals(m), ModuleGlobals(m),
                              Body(m)[i].fromlist, Body(m)[i].level).st,
                  m, i + 1)

\* the import system loads m, its package first, unless sys.modules holds it
LoadModule(st, m) ==
    IF m \in st.sys_modules THEN st
    ELSE LET st1 == IF Parent(m) = None THEN st ELSE LoadModule(st, Parent(m))
         IN  ExecBody([st1 EXCEPT !.sys_modules = @ \cup {m}], m, 1)

\* importlib._bootstrap._handle_fromlist: a name of the list that the package does not have
\* is tried as a submodule
HandleFromlist(st, m, fromlist, i) ==
    IF i > Len(fromlist) THEN st
    ELSE IF /\ IsPackage(m)
            /\ GetAttr(st, m, fromlist[i]) = NoneValue
            /\ Join(m, fromlist[i]) \in Universe
         THEN HandleFromlist(LoadModule(st, Join(m, fromlist[i])), m, fromlist, i + 1)
         ELSE HandleFromlist(st, m, fromlist, i + 1)

\* line 368, old_fn(name, globals, locals, fromlist, level): builtins.__import__
old_fn(st, name, globals, locals, fromlist, level) ==
    LET abs == Resolve(name, globals, level)
    IN  IF abs.raised # "none" THEN [st |-> st, raised |-> abs.raised, returned |-> None]
        ELSE IF abs.v \notin Universe
        THEN [st |-> st, raised |-> "ModuleNotFoundError", returned |-> None]
        ELSE LET st1 == LoadModule(st, abs.v)
             IN  IF fromlist = <<>>
                 THEN [st |-> st1, raised |-> "none",
                       returned |-> IF level = 0 THEN TopLevel(abs.v) ELSE abs.v]
                 ELSE [st |-> HandleFromlist(st1, abs.v, fromlist, 1), raised |-> "none",
                       returned |-> abs.v]

\* lines 371-375: the loop over fromlist
RECURSIVE AddFromlist(_, _, _, _, _)
AddFromlist(st, calling_module, mod, fromlist, i) ==
    IF i > Len(fromlist) THEN st
    ELSE LET frommod == GetAttr(st, mod, fromlist[i])
         IN  IF frommod.type = "module"
             THEN AddFromlist([st EXCEPT !.module_dependencies =
                                   AddEdge(@, calling_module, frommod.v)],
                              calling_module, mod, fromlist, i + 1)
             ELSE AddFromlist(st, calling_module, mod, fromlist, i + 1)

\* a mutation of orig_import: the edge is recorded under whatever get("__name__") returned
orig_import_AnyCaller(st, name, globals, locals, fromlist, level) ==
    LET calling_module == DictGet(Or(Or(globals, locals), Dict({})), "__name__")
        r == old_fn(st, name, globals, locals, fromlist, level)
    IN  IF r.raised # "none" THEN r
        ELSE [r EXCEPT !.st = AddFromlist(
                 [r.st EXCEPT !.module_dependencies = AddEdge(@, calling_module.v, r.returned)],
                 calling_module.v, r.returned, fromlist, 1)]

\* lines 358-376: __orig_import__, the function that patch_builtins puts in the place of the
\* import function
orig_import(st, name, globals, locals, fromlist, level) ==
    LET calling_module == DictGet(Or(Or(globals, locals), Dict({})), "__name__")
        r == old_fn(st, name, globals, locals, fromlist, level)
    IN  IF r.raised # "none" THEN r
        ELSE IF calling_module.type = "str"
        THEN [r EXCEPT !.st = AddFromlist(
                 [r.st EXCEPT !.module_dependencies = AddEdge(@, calling_module.v, r.returned)],
                 calling_module.v, r.returned, fromlist, 1)]
        ELSE r

(***************************************************************************)
(* The artifact layer (__init__.py, update_qmlregistrar_files).  A source  *)
(* file registers at most one class, each class in one QML module; the     *)
(* descriptor of a class is its name, the text that parse_class derives    *)
(* from the source, and inputFile.  A path of Paths is taken relative to   *)
(* the working directory /cwd.                                             *)
(***************************************************************************)
\* the QML modules (uri, major, minor)
Uris == {"M", "N"}

Classes == {"A", "B", "C"}

\* the source file that defines a class
ClassFile(cls) == CASE cls = "A" -> "a.py" [] cls = "B" -> "b.py" [] cls = "C" -> "c.py"

\* the QML module a class is registered for
ClassUri(cls) == CASE cls = "A" -> "M" [] cls = "B" -> "M" [] cls = "C" -> "N"

\* the order of the class names
ClassRank(cls) == CASE cls = "A" -> 1 [] cls = "B" -> 2 [] cls = "C" -> 3

\* what parse_class reads from a class, before and after an edit of its source
Contents == {"getNorm", "getNorman"}

\* pathlib.Path(p).resolve() for a path of Paths
Abs(p) == "/cwd/" \o p

\* the values of file_relative_path: none, the working directory, its parent
Bases == {None, "/cwd", "/"}

\* parse_module, lines 353-355 and 370: input_file.relative_to(file_relative_path).as_posix()
AsPosix(p, file_relative_path) ==
    IF file_relative_path = None THEN Abs(p)
    ELSE IF file_relative_path = "/cwd" THEN p
    ELSE "cwd/" \o p

\* lines 614 and 624: pathlib.Path(cls.inputFile).resolve()
ResolvePath(s) == IF s \in {Abs(p) : p \in Paths} THEN s ELSE "/cwd/" \o s

\* qmlregistrar_types.Module
Module(cls, content, file_relative_path) ==
    [className |-> cls, content |-> content,
     inputFile |-> AsPosix(ClassFile(cls), file_relative_path)]

\* no types file
NoTypes == [exists |-> FALSE, data |-> <<>>]

\* a types file and the list it holds
Types(data) == [exists |-> TRUE, data |-> data]

\* the classes of S in the order of their names
RECURSIVE ByName(_)
ByName(S) ==
    IF S = {} THEN <<>>
    ELSE LET c == CHOOSE x \in S : \A y \in S : ClassRank(x) <= ClassRank(y)
         IN  <<c>> \o ByName(S \ {c})

\* lines 342-373: parse_module
parse_module(clses, content, file_relative_path) ==
    [i \in 1..Len(ByName(clses)) |-> Module(ByName(clses)[i], content, file_relative_path)]

\* list.sort(key=className), which keeps the order of the entries with the same name
RECURSIVE SortByClassName(_)
SortByClassName(data) ==
    IF data = <<>> THEN <<>>
    ELSE LET least == CHOOSE i \in 1..Len(data) :
                          /\ \A j \in 1..Len(data) :
                                ClassRank(data[i].className) <= ClassRank(data[j].className)
                          /\ \A j \in 1..(i - 1) : data[j].className # data[i].className
         IN  <<data[least]>>
             \o SortByClassName([k \in 1..(Len(data) - 1) |->
                                    IF k < least THEN data[k] ELSE data[k + 1]])

\* a list comprehension with a condition
RECURSIVE Filter(_, _)
Filter(data, keep) ==
    IF data = <<>> THEN <<>>
    ELSE IF Head(data) \in keep THEN <<Head(data)>> \o Filter(Tail(data), keep)
    ELSE Filter(Tail(data), keep)

\* lines 603, 611-615: the entries of the types file whose inputFile is a clean file
KeptData(original_data, all_files, dirty_files) ==
    Filter(original_data,
           {cls \in Range(original_data) :
               ResolvePath(cls.inputFile) \in all_files \ dirty_files})

\* lines 593-597: the QML modules with registered classes or with a types file
ModulesToProcess(registered_classes, types_json) ==
    {ClassUri(cls) : cls \in registered_classes} \cup {uri \in Uris : types_json[uri].exists}

\* lines 604-649: the body of the loop for one QML module.  generated holds the QML modules
\* whose registrations cpp and qmltypes files exist, qmldir_entries the keys of the
\* dictionary of line 602
UpdateOne(uri, st, args) ==
    LET original_data == IF st.types_json[uri].exists THEN st.types_json[uri].data ELSE <<>>
        kept == KeptData(original_data, args.all_files, args.dirty_files)
        clses == {cls \in args.registered_classes : ClassUri(cls) = uri}
        data == SortByClassName(
                    kept \o parse_module(clses, args.content, args.file_relative_path))
        st1 == [st EXCEPT !.kept[uri] = kept]
    IN  IF \E i \in 1..Len(data) : ResolvePath(data[i].inputFile) \notin args.all_files
        THEN [st1 EXCEPT !.raised = "RuntimeError"]
        ELSE IF Len(data) = 0
        THEN IF ~st.types_json[uri].exists
             THEN [st1 EXCEPT !.raised = "FileNotFoundError"]
             ELSE IF uri \notin st.generated
             THEN [st1 EXCEPT !.types_json[uri] = NoTypes, !.raised = "FileNotFoundError"]
             ELSE [st1 EXCEPT !.types_json[uri] = NoTypes, !.generated = @ \ {uri},
                              !.removed = @ \cup {uri}]
        ELSE IF original_data # data
        THEN [st1 EXCEPT !.types_json[uri] = Types(data),
                         !.dirty_type_dirs = Append(@, uri),
                         !.qmldir_entries = @ \cup {uri}]
        ELSE [st1 EXCEPT !.qmldir_entries = @ \cup {uri}]

\* lines 604-649: the loop over modules_to_process, which an exception leaves
RECURSIVE UpdateLoop(_, _, _, _)
UpdateLoop(modules, i, st, args) ==
    IF i > Len(modules) \/ st.raised # "none" THEN st
    ELSE UpdateLoop(modules, i + 1, UpdateOne(modules[i], st, args), args)

\* update_qmlregistrar_files without lines 674-676: the qmldir files found are left in place
update_qmlregistrar_files_KeepQmldir(args, types_json) ==
    LET st == UpdateLoop(args.order, 1,
                         [types_json |-> types_json, dirty_type_dirs |-> <<>>, removed |-> {},
                          kept |-> [uri \in Uris |-> <<>>], generated |-> args.generated,
                          qmldir_entries |-> {}, raised |-> "none"],
                         args)
    IN  [types_json |-> st.types_json, written |-> Range(st.dirty_type_dirs),
         removed |-> st.removed, kept |-> st.kept, raised |-> st.raised,
         registrar_runs |-> IF st.raised = "none" THEN Range(st.dirty_type_dirs) ELSE {},
         generated |-> IF st.raised = "none"
                       THEN st.generated \cup Range(st.dirty_type_dirs) ELSE st.generated,
         qmldir |-> IF st.raised = "none" THEN args.qmldir \cup st.qmldir_entries
                    ELSE args.qmldir]

\* lines 583-683: update_qmlregistrar_files; once the loop has ended the registrar writes
\* the registrations cpp and qmltypes files of the QML modules of dirty_type_dirs (lines
\* 651-672), every qmldir is removed (lines 674-676) and the qmldir of every key of
\* qmldir_entries is written (lines 678-683)
update_qmlregistrar_files(args, types_json) ==
    LET st == UpdateLoop(args.order, 1,
                         [types_json |-> types_json, dirty_type_dirs |-> <<>>, removed |-> {},
                          kept |-> [uri \in Uris |-> <<>>], generated |-> args.generated,
                          qmldir_entries |-> {}, raised |-> "none"],
                         args)
    IN  [types_json |-> st.types_json, written |-> Range(st.dirty_type_dirs),
         removed |-> st.removed, kept |-> st.kept, raised |-> st.raised,
         registrar_runs |-> IF st.raised = "none" THEN Range(st.dirty_type_dirs) ELSE {},
         generated |-> IF st.raised = "none"
                       THEN st.generated \cup Range(st.dirty_type_dirs) ELSE st.generated,
         qmldir |-> IF st.raised = "none" THEN st.qmldir_entries ELSE args.qmldir]

(***************************************************************************)
(* dirty_file_detection.recursive_module_metadata_addition (lines 44-66):  *)
(* the fold of a module and of what it depends on into the metadata map.   *)
(* env holds what the function reads beside its arguments: sys.modules     *)
(* (the names loaded, each module n with __file__ PathOf(n)), the file     *)
(* system, and the order in which the set deps is iterated (a set of str   *)
(* has no fixed iteration order).  The number of calls is counted.         *)
(***************************************************************************)
\* what the function reads beside its arguments
Env(loaded_names, dsk, reversed) ==
    [sys_modules |-> loaded_names, disk |-> dsk, reversed |-> reversed]

\* module_metadata[name] = value, for a name that is not a key yet
Insert(module_metadata, name, value) ==
    PythonModulesMetadata(
        Append(module_metadata.keys, name),
        [n \in Range(module_metadata.keys) \cup {name} |->
            IF n = name THEN value ELSE module_metadata.meta[n]])

\* module_metadata[name] = value, for any name
SetItem(module_metadata, name, value) ==
    IF name \in Range(module_metadata.keys)
    THEN PythonModulesMetadata(module_metadata.keys,
                               [module_metadata.meta EXCEPT ![name] = value])
    ELSE Insert(module_metadata, name, value)

\* dependency_map.get(module_name, set())
DepsOf(dependency_map, module_name) ==
    IF module_name \in DOMAIN dependency_map THEN dependency_map[module_name] ELSE {}

\* the order in which "for dep in deps" visits the set
Iterate(deps, env) == IF env.reversed THEN Reverse(Sorted(deps)) ELSE Sorted(deps)

\* the result of a call: the map and the number of calls made
Folded(module_metadata, calls) == [module_metadata |-> module_metadata, calls |-> calls]

RECURSIVE recursive_module_metadata_addition(_, _, _, _)
RECURSIVE AddDeps(_, _, _, _, _)
\* lines 65-66: the loop over deps, from position i on
AddDeps(deps, i, dependency_map, st, env) ==
    IF i > Len(deps) THEN st
    ELSE LET r == recursive_module_metadata_addition(deps[i], dependency_map,
                                                     st.module_metadata, env)
         IN  AddDeps(deps, i + 1, dependency_map,
                     Folded(r.module_metadata, st.calls + r.calls), env)

\* a mutation of recursive_module_metadata_addition: an entry that is present is written again
recursive_module_metadata_addition_Refresh(module_name, dependency_map, module_metadata, env) ==
    IF module_name \in Range(module_metadata.keys)
    THEN Folded(SetItem(module_metadata, module_name,
                        IF /\ module_name \in env.sys_modules
                           /\ Exists(env.disk, PathOf(module_name))
                        THEN PythonModuleMetadata(StMTime(env.disk, PathOf(module_name)),
                                                  PathOf(module_name),
                                                  Sorted(DepsOf(dependency_map, module_name)))
                        ELSE NoneMeta), 1)
    ELSE IF module_name \notin env.sys_modules
    THEN Folded(Insert(module_metadata, module_name, NoneMeta), 1)
    ELSE IF ~Exists(env.disk, PathOf(module_name))
    THEN Folded(Insert(module_metadata, module_name, NoneMeta), 1)
    ELSE AddDeps(Iterate(DepsOf(dependency_map, module_name), env), 1, dependency_map,
                 Folded(Insert(module_metadata, module_name,
                               PythonModuleMetadata(StMTime(env.disk, PathOf(module_name)),
                                                    PathOf(module_name),
                                                    Sorted(DepsOf(dependency_map, module_name)))),
                        1),
                 env)

\* a mutation of recursive_module_metadata_addition: the dependencies are not folded
recursive_module_metadata_addition_NoRecursion(module_name, dependency_map, module_metadata, env) ==
    IF module_name \in Range(module_metadata.keys)
    THEN Folded(module_metadata, 1)
    ELSE IF module_name \notin env.sys_modules \/ ~Exists(env.disk, PathOf(module_name))
    THEN Folded(Insert(module_metadata, module_name, NoneMeta), 1)
    ELSE Folded(Insert(module_metadata, module_name,
                       PythonModuleMetadata(StMTime(env.disk, PathOf(module_name)),
                                            PathOf(module_name),
                                            Sorted(DepsOf(dependency_map, module_name)))), 1)

\* lines 44-66
recursive_module_metadata_addition(module_name, dependency_map, module_metadata, env) ==
    IF module_name \in Range(module_metadata.keys)
    THEN Folded(module_metadata, 1)
    ELSE IF module_name \notin env.sys_modules
    THEN Folded(Insert(module_metadata, module_name, NoneMeta), 1)
    ELSE IF ~Exists(env.disk, PathOf(module_name))
    THEN Folded(Insert(module_metadata, module_name, NoneMeta), 1)
    ELSE AddDeps(Iterate(DepsOf(dependency_map, module_name), env), 1, dependency_map,
                 Folded(Insert(module_metadata, module_name,
                               PythonModuleMetadata(StMTime(env.disk, PathOf(module_name)),
                                                    PathOf(module_name),
                                                    Sorted(DepsOf(dependency_map, module_name)))),
                        1),
                 env)

(***************************************************************************)
(* State.                                                                  *)
(***************************************************************************)
VARIABLES
    disk,                       \* the file system: path -> modification time, 0 = absent
    in_dir,                     \* the paths that lie below the input directories
    metadata_file,              \* out_dir/metadata.json
    types_json,                 \* out_dir/<uri>/types<major>-<minor>.json, per QML module
    pc,                         \* where the run is
    runs,                       \* how many runs were started
    changes,                    \* the files the environment changed
    untouched,                  \* a run has ended and no file changed since
    last_exit,                  \* how the last run ended
    cold_start,                 \* the last run found no metadata.json
    current_files,              \* all_python_files of the run
    modules_metadata,           \* the loaded snapshot
    module_dirty,
    found_change,
    passes,                     \* how many full scans the propagation loop made
    reachable_modules,
    previous_reachable_modules,
    result,                     \* the value detect_new_and_dirty_files returns
    import_calls,               \* the files whose module the run has imported (line 562)
    force_rebuild,              \* the argument of process
    on_file,                    \* what metadata.json holds and how it came to hold it
    saving,                     \* the argument of the save_modules_metadata that is running
    loaded,                     \* what the last load_modules_metadata returned or raised
    module_dependencies,        \* info.module_dependencies
    sys_modules,                \* the names of the modules in sys.modules
    last_import,                \* the last call of the import function and how it ended
    imports,                    \* how many calls of the import function were made
    update_args,                \* the arguments of update_qmlregistrar_files
    update_result,              \* what update_qmlregistrar_files did
    fold_metadata,              \* module_metadata, the map import_dirty_modules folds into
    fold_log,                   \* the last call of recursive_module_metadata_addition
    folds                       \* how many such calls were made from outside

main_vars == <<disk, in_dir, metadata_file, types_json, pc, runs, changes, untouched, last_exit, cold_start,
               current_files, modules_metadata, module_dirty, found_change, passes,
               reachable_modules, previous_reachable_modules, result, import_calls,
               force_rebuild, on_file>>

store_vars == <<saving, loaded>>

tracer_vars == <<module_dependencies, sys_modules, last_import, imports>>

registrar_vars == <<update_args, update_result>>

fold_vars == <<fold_metadata, fold_log, folds>>

vars == <<main_vars, store_vars, tracer_vars, registrar_vars, fold_vars>>

\* what a run of the tool leaves alone
beside_main == <<store_vars, tracer_vars, registrar_vars, fold_vars>>

\* what the metadata store leaves alone
beside_store == <<types_json, tracer_vars, registrar_vars, fold_vars>>

world == <<disk, in_dir, metadata_file, on_file, types_json>>

\* on_file: no file, the whole text of a metadata that was there before the tool was started,
\* the whole text of a metadata that the tool saved, or the beginning of the text of a
\* metadata that the tool was saving when it was killed
Missing == [kind |-> "missing", metadata |-> Metadata(EmptyModules, DefaultVersion)]

Complete(metadata) == [kind |-> "complete", metadata |-> metadata]

Saved(metadata) == [kind |-> "saved", metadata |-> metadata]

Truncated(metadata) == [kind |-> "truncated", metadata |-> metadata]

\* no save_modules_metadata is running
NotSaving == Metadata(EmptyModules, "<not saving>")

\* load_modules_metadata was not called
NotLoaded == [raised |-> "<not loaded>", value |-> EmptyModules]

\* the metadata store is not driven on its own
StoreIdle == saving = NotSaving /\ loaded = NotLoaded

\* the import function was not called
NoImport ==
    [name |-> "", globals |-> NoDict, locals |-> NoDict, fromlist |-> <<>>, level |-> 0,
     caller |-> "", raised |-> "<not called>", returned |-> None,
     before |-> [module_dependencies |-> <<>>, sys_modules |-> {}]]

\* no QML module has a types file
NoOutput == [uri \in Uris |-> NoTypes]

\* the arguments of a call that was not made
NoArgs ==
    [all_files |-> {}, dirty_files |-> {}, registered_classes |-> {}, content |-> "",
     file_relative_path |-> None, order |-> <<>>, types_json |-> NoOutput,
     generated |-> {}, qmldir |-> {}]

\* update_qmlregistrar_files was not called
NotUpdated ==
    [types_json |-> NoOutput, written |-> {}, removed |-> {},
     kept |-> [uri \in Uris |-> <<>>], raised |-> "<not called>", registrar_runs |-> {},
     generated |-> {}, qmldir |-> {}]

\* the artifact layer is not driven on its own
RegistrarIdle == update_args = NoArgs /\ update_result = NotUpdated

\* the types files that a run from scratch over the source files leaves
ScratchOutput(files) ==
    update_qmlregistrar_files(
        [all_files |-> {Abs(p) : p \in files}, dirty_files |-> {Abs(p) : p \in files},
         registered_classes |-> {cls \in Classes : ClassFile(cls) \in files},
         content |-> "getNorm", file_relative_path |-> None, order |-> <<"M", "N">>,
         generated |-> {}, qmldir |-> {}],
        NoOutput).types_json

\* no call of recursive_module_metadata_addition was made
NoFold == [module_name |-> "", before |-> EmptyModules, calls |-> 0]

\* the fold is not driven on its own
FoldIdle == fold_metadata = EmptyModules /\ fold_log = NoFold /\ folds = 0

\* the tracer is not driven on its own
TracerIdle ==
    /\ module_dependencies = <<>>
    /\ sys_modules = {}
    /\ last_import = NoImport
    /\ imports = 0

locals == <<force_rebuild, current_files, modules_metadata, module_dirty, found_change, passes,
            reachable_modules, previous_reachable_modules, result, import_calls>>

\* the locals of a process that is not running
NoLocals ==
    /\ force_rebuild = FALSE
    /\ current_files = <<>>
    /\ modules_metadata = EmptyModules
    /\ module_dirty = <<>>
    /\ found_change = TRUE
    /\ passes = 0
    /\ reachable_modules = {}
    /\ previous_reachable_modules = {}
    /\ result = <<>>
    /\ import_calls = <<>>

\* the process ends: its locals are gone
DropLocals ==
    /\ force_rebuild' = FALSE
    /\ current_files' = <<>>
    /\ modules_metadata' = EmptyModules
    /\ module_dirty' = <<>>
    /\ found_change' = TRUE
    /\ passes' = 0
    /\ reachable_modules' = {}
    /\ previous_reachable_modules' = {}
    /\ result' = <<>>
    /\ import_calls' = <<>>

(***************************************************************************)
(* The snapshots a metadata.json can hold: every record has the path of    *)
(* its module (so the paths of the records are pairwise distinct), a       *)
(* sorted dependency list and the modification time its file had; every    *)
(* dependency is a key; a tombstone has no dependencies and is             *)
(* a dependency of some record.  A module's own name in its dependency     *)
(* list is left out: the scan reads the mark of a dependency only while    *)
(* the module is clean, and the reachability step would add a name the set *)
(* already holds.                                                          *)
(***************************************************************************)
\* the modification time the recorded files had when the snapshot was written
RecordedMTime == MaxMTime - 1

EdgeCount(deps) ==
    Cardinality({e \in Names \X Names : e[2] \in deps[e[1]]})

Snapshots ==
    UNION {
        {PythonModulesMetadata(keys,
            [n \in Range(keys) |->
                IF kind[n] = "record"
                THEN PythonModuleMetadata(RecordedMTime, PathOf(n), Sorted(deps[n]))
                ELSE NoneMeta]) :
            keys \in KeyOrders(Names)} :
        <<kind, deps>> \in
            {kd \in [Names -> {"tombstone", "record"}] \X [Names -> SUBSET Names] :
                /\ \A n \in Names :
                       /\ kd[1][n] # "record" => kd[2][n] = {}
                       /\ n \notin kd[2][n]
                       /\ kd[1][n] = "tombstone" => \E m \in Names : n \in kd[2][m]
                /\ EdgeCount(kd[2]) <= MaxEdges}}

RecordPaths(modules) ==
    {modules.meta[n].path : n \in {k \in Range(modules.keys) : modules.meta[k] # NoneMeta}}

\* a cold start: no metadata.json, some source files
InitCold ==
    /\ metadata_file = NoFile
    /\ on_file = Missing
    /\ types_json = NoOutput
    /\ in_dir = Paths
    /\ \E present \in SUBSET Paths :
          disk = [p \in Paths |-> IF p \in present THEN RecordedMTime ELSE 0]

\* a warm start: a metadata.json whose records agree with the file system
InitWarm ==
    /\ \E modules \in Snapshots :
          /\ metadata_file = MetadataJson(modules)
          /\ on_file = Complete(Metadata(modules, CurrentVersion))
          /\ \E outside \in {{}} \cup {{p} : p \in RecordPaths(modules)} :
                /\ in_dir = Paths \ outside
                /\ types_json = ScratchOutput(RecordPaths(modules) \ outside)
          /\ disk = [p \in Paths |-> IF p \in RecordPaths(modules) THEN RecordedMTime ELSE 0]

Init ==
    /\ InitCold \/ InitWarm
    /\ pc = "idle"
    /\ runs = 0
    /\ changes = {}
    /\ untouched = FALSE
    /\ last_exit = "none"
    /\ cold_start = FALSE
    /\ NoLocals
    /\ StoreIdle
    /\ TracerIdle
    /\ RegistrarIdle
    /\ FoldIdle

(***************************************************************************)
(* The environment, between two runs.                                      *)
(***************************************************************************)
\* the paths a file can be written to: below the input directories, or where a record of
\* the metadata.json the model starts with points
Writable == Paths

Touch(p) ==
    /\ pc = "idle"
    /\ p \notin changes
    /\ Cardinality(changes) < MaxChanges
    /\ Exists(disk, p)
    /\ disk[p] < MaxMTime
    /\ disk' = [disk EXCEPT ![p] = disk[p] + 1]
    /\ untouched' = FALSE
    /\ changes' = changes \cup {p}
    /\ UNCHANGED <<in_dir, metadata_file, on_file, types_json, pc, runs, last_exit,
                   cold_start, locals, beside_main>>

Delete(p) ==
    /\ pc = "idle"
    /\ p \notin changes
    /\ Cardinality(changes) < MaxChanges
    /\ Exists(disk, p)
    /\ disk' = [disk EXCEPT ![p] = 0]
    /\ untouched' = FALSE
    /\ changes' = changes \cup {p}
    /\ UNCHANGED <<in_dir, metadata_file, on_file, types_json, pc, runs, last_exit,
                   cold_start, locals, beside_main>>

\* a file that is written now gets the latest modification time
Create(p) ==
    /\ pc = "idle"
    /\ p \notin changes
    /\ Cardinality(changes) < MaxChanges
    /\ p \in Writable
    /\ ~Exists(disk, p)
    /\ disk' = [disk EXCEPT ![p] = MaxMTime]
    /\ untouched' = FALSE
    /\ changes' = changes \cup {p}
    /\ UNCHANGED <<in_dir, metadata_file, on_file, types_json, pc, runs, last_exit,
                   cold_start, locals, beside_main>>

(***************************************************************************)
(* One run of the tool.                                                    *)
(***************************************************************************)
\* __init__.py lines 544-552, dirty_file_detection.py lines 87-101: the enumeration of
\* the files, the load of the snapshot and the initialisation of module_dirty
StartRun(force) ==
    /\ pc = "idle"
    /\ runs < MaxRuns
    /\ runs' = runs + 1
    /\ metadata_file' = RmTree(metadata_file, force)
    /\ on_file' = IF RmTree(metadata_file, force).exists THEN on_file ELSE Missing
    /\ types_json' = IF force THEN NoOutput ELSE types_json
    /\ cold_start' = ~RmTree(metadata_file, force).exists
    /\ LET l == load_modules_metadata(RmTree(metadata_file, force))
       IN  IF l.raised = "none"
           THEN /\ force_rebuild' = force
                /\ current_files' = Enumerate({p \in in_dir : Exists(disk, p)})
                /\ modules_metadata' = l.value
                /\ module_dirty' = SeedDirty(l.value, disk)
                /\ found_change' = TRUE
                /\ pc' = "propagate"
                /\ UNCHANGED <<untouched, last_exit, passes, reachable_modules,
                               previous_reachable_modules, result, import_calls>>
           ELSE /\ last_exit' = l.raised
                /\ untouched' = TRUE
                /\ DropLocals
                /\ UNCHANGED pc
    /\ UNCHANGED <<disk, in_dir, changes, beside_main>>

\* lines 102-110: the loop condition holds, one full scan
Propagate ==
    /\ pc = "propagate"
    /\ found_change
    /\ LET r == PropagatePass(modules_metadata, module_dirty)
       IN  /\ module_dirty' = r.module_dirty
           /\ found_change' = r.found_change
    /\ passes' = passes + 1
    /\ UNCHANGED <<world, pc, runs, changes, untouched, last_exit, cold_start, current_files,
                   modules_metadata, reachable_modules, previous_reachable_modules, result,
                   import_calls, force_rebuild, beside_main>>

\* lines 102, 112-159: the loop condition fails; the reachable set and the three results
Return ==
    /\ pc = "propagate"
    /\ ~found_change
    /\ LET mptn == ModulePathToName(modules_metadata)
           reachable == ReachLoop(modules_metadata,
                                  InitialReachable(current_files, mptn), {})
       IN  /\ reachable_modules' = reachable
           /\ previous_reachable_modules' = reachable
           /\ result' = <<DirtyFiles(current_files, mptn, module_dirty, 1),
                          CleanedModulesMetadata(modules_metadata, reachable, module_dirty),
                          DirtyPaths(modules_metadata, module_dirty, current_files)>>
    /\ pc' = "returned"
    /\ UNCHANGED <<world, runs, changes, untouched, last_exit, cold_start, current_files,
                   modules_metadata, module_dirty, found_change, passes, force_rebuild,
                   import_calls, beside_main>>

\* __init__.py line 551: the result is assigned to dirty_files, module_metadata; an
\* exception leaves import_dirty_modules and process, and the process ends
Unpack ==
    /\ pc = "returned"
    /\ LET u == UnpackTwo(result)
       IN  /\ last_exit' = u.raised
           /\ IF u.raised = "none"
              THEN /\ pc' = "import"
                   /\ UNCHANGED <<untouched, locals>>
              ELSE /\ pc' = "idle"
                   /\ untouched' = TRUE
                   /\ DropLocals
    /\ UNCHANGED <<world, runs, changes, cold_start, beside_main>>

Next ==
    \/ \E p \in Paths : Touch(p)
    \/ \E p \in Paths : Delete(p)
    \/ \E p \in Paths : Create(p)
    \/ \E force \in BOOLEAN : StartRun(force)
    \/ Propagate
    \/ Return
    \/ Unpack

Spec == Init /\ [][Next]_vars

(***************************************************************************)
(* The metadata store on its own: save_modules_metadata as                 *)
(* import_dirty_modules calls it (lines 571-573), the process being killed *)
(* while it writes, and load_modules_metadata followed by                  *)
(* detect_new_and_dirty_files as import_dirty_modules calls them (lines    *)
(* 551-553), over the metadata.json files that this release or another     *)
(* release of the tool left in the output directory.                       *)
(***************************************************************************)
StoreInit ==
    /\ \/ metadata_file = NoFile /\ on_file = Missing
       \/ \E modules \in Snapshots, version \in {CurrentVersion, OldVersion} :
             /\ metadata_file = File(dump_json(Metadata(modules, version)))
             /\ on_file = Complete(Metadata(modules, version))
    /\ in_dir = Paths
    /\ \E present \in {Paths, Paths \ {NewPath}} :
          disk = [p \in Paths |-> IF p \in present THEN RecordedMTime ELSE 0]
    /\ pc = "idle"
    /\ runs = 0
    /\ changes = {}
    /\ untouched = FALSE
    /\ last_exit = "none"
    /\ cold_start = FALSE
    /\ NoLocals
    /\ StoreIdle
    /\ TracerIdle
    /\ RegistrarIdle
    /\ FoldIdle
    /\ types_json = NoOutput

\* __init__.py lines 571-572 and dirty_file_detection.py line 40: the argument is built
\* and open(..., "wb") creates the file or empties it
SaveOpen(module_metadata) ==
    /\ pc = "idle"
    /\ saving' = Metadata(module_metadata, DefaultVersion)
    /\ metadata_file' = File(<<>>)
    /\ on_file' = Truncated(Metadata(module_metadata, DefaultVersion))
    /\ loaded' = NotLoaded
    /\ result' = <<>>
    /\ pc' = "saving"
    /\ UNCHANGED <<disk, in_dir, runs, changes, untouched, last_exit, cold_start, force_rebuild,
                   current_files, modules_metadata, module_dirty, found_change, passes,
                   reachable_modules, previous_reachable_modules, import_calls,
                   beside_store>>

\* line 41: the text is written and the file is closed
SaveWrite ==
    /\ pc = "saving"
    /\ metadata_file' = File(dump_json(saving))
    /\ on_file' = Saved(saving)
    /\ saving' = NotSaving
    /\ last_exit' = "none"
    /\ pc' = "idle"
    /\ UNCHANGED <<disk, in_dir, runs, changes, untouched, cold_start, locals, loaded,
                   beside_store>>

\* the process is killed between lines 40 and 41 or inside the write of line 41: the file
\* holds the beginning of the text that had reached it
Crash ==
    /\ pc = "saving"
    /\ \E written \in 0..(Len(dump_json(saving)) - 1) :
          metadata_file' = File(SubSeq(dump_json(saving), 1, written))
    /\ on_file' = Truncated(saving)
    /\ saving' = NotSaving
    /\ last_exit' = "killed"
    /\ pc' = "idle"
    /\ UNCHANGED <<disk, in_dir, runs, changes, untouched, cold_start, locals, loaded,
                   beside_store>>

\* __init__.py lines 544-553: the snapshot is loaded and handed to detect_new_and_dirty_files
Load ==
    /\ pc = "idle"
    /\ LET l == load_modules_metadata(metadata_file)
       IN  /\ loaded' = l
           /\ last_exit' = l.raised
           /\ result' = IF l.raised = "none"
                         THEN detect_new_and_dirty_files(
                                  Enumerate({p \in in_dir : Exists(disk, p)}), l.value, disk)
                         ELSE <<>>
    /\ UNCHANGED <<world, pc, runs, changes, untouched, cold_start, force_rebuild,
                   current_files, modules_metadata, module_dirty, found_change, passes,
                   reachable_modules, previous_reachable_modules, import_calls, saving,
                   beside_store>>

StoreNext ==
    \/ \E module_metadata \in Snapshots : SaveOpen(module_metadata)
    \/ SaveWrite
    \/ Crash
    \/ Load

StoreSpec == StoreInit /\ [][StoreNext]_vars

(***************************************************************************)
(* The tracer on its own: the module main is being executed, and import    *)
(* statements of every form are executed by main, by the submodule pkg.mod *)
(* once it is loaded, and by code that runs outside a module.              *)
(***************************************************************************)
\* the number of import statements followed
MaxImports == 2

\* no run and no file: the state of the tool's directories while the tracer is looked at
MainIdle ==
    /\ disk = [p \in Paths |-> 0]
    /\ in_dir = Paths
    /\ metadata_file = NoFile
    /\ on_file = Missing
    /\ types_json = NoOutput
    /\ pc = "idle"
    /\ runs = 0
    /\ changes = {}
    /\ untouched = FALSE
    /\ last_exit = "none"
    /\ cold_start = FALSE
    /\ NoLocals

\* the arguments that the forms of the import statement hand to the import function
ImportForms ==
    {[name |-> "lib", fromlist |-> <<>>, level |-> 0],                 \* import lib
     [name |-> "pkg.sub", fromlist |-> <<>>, level |-> 0],             \* import pkg.sub
     [name |-> "pkg.mod", fromlist |-> <<>>, level |-> 0],             \* import pkg.mod
     [name |-> "pkg", fromlist |-> <<"sub">>, level |-> 0],            \* from pkg import sub
     [name |-> "pkg", fromlist |-> <<"Thing", "lib">>, level |-> 0],   \* from pkg import Thing, lib
     [name |-> "pkg.sub", fromlist |-> <<"x">>, level |-> 0],          \* from pkg.sub import x
     [name |-> "", fromlist |-> <<"sub">>, level |-> 1],               \* from . import sub
     [name |-> "sub", fromlist |-> <<"x">>, level |-> 1],              \* from .sub import x
     [name |-> "nothere", fromlist |-> <<>>, level |-> 0]}             \* import nothere

\* the globals and locals the import function is called with, and the module whose code
\* makes the call ("" when the call is made outside a module)
Callers ==
    {[caller |-> "main", globals |-> ModuleGlobals("main"), locals |-> ModuleGlobals("main")],
     [caller |-> "pkg.mod", globals |-> ModuleGlobals("pkg.mod"),
      locals |-> Dict({<<"self", IntValue("1")>>})],
     [caller |-> "main", globals |-> Dict({}), locals |-> ModuleGlobals("main")],
     [caller |-> "", globals |-> NoDict, locals |-> NoDict],
     [caller |-> "", globals |-> Dict({<<"x", IntValue("1")>>}), locals |-> NoDict],
     [caller |-> "", globals |-> Dict({<<"__name__", IntValue("7")>>}), locals |-> Dict({})]}

TracerInit ==
    /\ MainIdle
    /\ StoreIdle
    /\ RegistrarIdle
    /\ FoldIdle
    /\ module_dependencies = <<>>
    /\ sys_modules = {"main"}
    /\ last_import = NoImport
    /\ imports = 0

\* one import statement is executed
Import(c, f) ==
    /\ imports < MaxImports
    /\ c.caller = "" \/ c.caller \in sys_modules
    /\ LET st == [module_dependencies |-> module_dependencies, sys_modules |-> sys_modules]
           r == orig_import(st, f.name, c.globals, c.locals, f.fromlist, f.level)
       IN  /\ module_dependencies' = r.st.module_dependencies
           /\ sys_modules' = r.st.sys_modules
           /\ last_import' = [name |-> f.name, globals |-> c.globals, locals |-> c.locals,
                              fromlist |-> f.fromlist, level |-> f.level, caller |-> c.caller,
                              raised |-> r.raised, returned |-> r.returned, before |-> st]
    /\ imports' = imports + 1
    /\ UNCHANGED <<main_vars, store_vars, registrar_vars, fold_vars>>

TracerNext == \E c \in Callers, f \in ImportForms : Import(c, f)

TracerSpec == TracerInit /\ [][TracerNext]_vars

(***************************************************************************)
(* The artifact layer on its own: one call of update_qmlregistrar_files    *)
(* over an output directory that earlier runs with the same                *)
(* file_relative_path filled.  The dirty set holds the dirty files among   *)
(* the files scanned (import_dirty_modules, line 579: nothing adds to the  *)
(* set imported_files of line 554); a class registers itself when its file *)
(* is executed, as a dirty file or as a file that a dirty file imports.    *)
(* An earlier call that raised can have left a types file without the      *)
(* files that the registrar generates, and a qmldir without a types file.  *)
(***************************************************************************)
\* the source files that register a class
ClassFiles == {ClassFile(cls) : cls \in Classes}

\* the types files an earlier run can have left for a QML module
StoredTypes(uri, file_relative_path) ==
    {NoTypes} \cup
    {Types(parse_module(clses, "getNorm", file_relative_path)) :
        clses \in SUBSET {cls \in Classes : ClassUri(cls) = uri} \ {{}}}

\* lines 571-573: the snapshot that import_dirty_modules saved before it returned, a record
\* with the modification time of every file scanned (the dependencies are left out)
SavedSnapshot(files, dsk) ==
    Metadata(PythonModulesMetadata(
                 Sorted({n \in Names : PathOf(n) \in files}),
                 [n \in {m \in Names : PathOf(m) \in files} |->
                     PythonModuleMetadata(StMTime(dsk, PathOf(n)), PathOf(n), <<>>)]),
             DefaultVersion)

RegistrarInit ==
    /\ pc = "idle"
    /\ runs = 0
    /\ changes = {}
    /\ untouched = FALSE
    /\ last_exit = "none"
    /\ cold_start = FALSE
    /\ NoLocals
    /\ StoreIdle
    /\ TracerIdle
    /\ FoldIdle
    /\ update_result = NotUpdated
    /\ \E all_files \in SUBSET ClassFiles, file_relative_path \in Bases, content \in Contents :
          \E dirty_files \in SUBSET all_files, registered_classes \in SUBSET Classes,
             order \in {<<"M", "N">>, <<"N", "M">>} :
             /\ dirty_files = {} => registered_classes = {}
             /\ in_dir = all_files
             /\ disk = [p \in Paths |->
                           IF p \in all_files \cup {ClassFile(cls) : cls \in registered_classes}
                           THEN RecordedMTime ELSE 0]
             /\ metadata_file = File(dump_json(SavedSnapshot(all_files, disk)))
             /\ on_file = Saved(SavedSnapshot(all_files, disk))
             /\ types_json \in [Uris -> UNION {StoredTypes(uri, file_relative_path) :
                                                  uri \in Uris}]
             /\ \A uri \in Uris : types_json[uri] \in StoredTypes(uri, file_relative_path)
             /\ \E generated \in SUBSET {uri \in Uris : types_json[uri].exists},
                   qmldir \in {{uri \in Uris : types_json[uri].exists}, Uris} :
                   update_args =
                       [all_files |-> {Abs(p) : p \in all_files},
                        dirty_files |-> {Abs(p) : p \in dirty_files},
                        registered_classes |-> registered_classes,
                        content |-> content,
                        file_relative_path |-> file_relative_path,
                        order |-> FilterKeys(order,
                                             ModulesToProcess(registered_classes, types_json)),
                        types_json |-> types_json,
                        generated |-> generated,
                        qmldir |-> qmldir]

\* lines 583-683: the call
UpdateQmlregistrarFiles ==
    /\ update_result = NotUpdated
    /\ update_result' = update_qmlregistrar_files(update_args, types_json)
    /\ types_json' = update_qmlregistrar_files(update_args, types_json).types_json
    /\ UNCHANGED <<disk, in_dir, metadata_file, on_file, pc, runs, changes, untouched,
                   last_exit, cold_start, locals, store_vars, tracer_vars, fold_vars,
                   update_args>>

RegistrarNext == UpdateQmlregistrarFiles

RegistrarSpec == RegistrarInit /\ [][RegistrarNext]_vars

(***************************************************************************)
(* The fold on its own: calls of recursive_module_metadata_addition, as    *)
(* the loop of import_dirty_modules makes them one after the other, over a *)
(* traced dependency map (cycles and self-imports included), a set of      *)
(* loaded modules, a file system, and a map that holds nothing or one      *)
(* surviving entry that is out of date.                                    *)
(***************************************************************************)
\* number of calls made from outside
MaxFolds == 2

\* the dependency maps the tracer can leave
DependencyMaps == {d \in [Names -> SUBSET Names] : EdgeCount(d) <= MaxEdges}

\* the maps the fold starts from
SurvivingMaps ==
    {EmptyModules} \cup
    UNION {{Insert(EmptyModules, n, NoneMeta),
            Insert(EmptyModules, n, PythonModuleMetadata(RecordedMTime, PathOf(n), <<>>))} :
           n \in Names}

FoldInit ==
    /\ in_dir = Paths
    /\ metadata_file = NoFile
    /\ on_file = Missing
    /\ types_json = NoOutput
    /\ pc = "idle"
    /\ runs = 0
    /\ changes = {}
    /\ untouched = FALSE
    /\ last_exit = "none"
    /\ cold_start = FALSE
    /\ NoLocals
    /\ StoreIdle
    /\ RegistrarIdle
    /\ last_import = NoImport
    /\ imports = 0
    /\ fold_log = NoFold
    /\ folds = 0
    /\ module_dependencies \in DependencyMaps
    /\ sys_modules \in SUBSET Names
    /\ \E present \in SUBSET Names :
          /\ Names \ sys_modules \subseteq present
          /\ disk = [p \in Paths |-> IF p \in {PathOf(n) : n \in present}
                                     THEN MaxMTime ELSE 0]
    /\ fold_metadata \in SurvivingMaps

\* __init__.py lines 567-569 as the signature of the function means them: one call
Fold(module_name, reversed) ==
    /\ folds < MaxFolds
    /\ LET r == recursive_module_metadata_addition(module_name, module_dependencies,
                                                   fold_metadata,
                                                   Env(sys_modules, disk, reversed))
       IN  /\ fold_metadata' = r.module_metadata
           /\ fold_log' = [module_name |-> module_name, before |-> fold_metadata,
                           calls |-> r.calls]
    /\ folds' = folds + 1
    /\ UNCHANGED <<main_vars, store_vars, tracer_vars, registrar_vars>>

FoldNext == \E module_name \in Names, reversed \in BOOLEAN : Fold(module_name, reversed)

FoldSpec == FoldInit /\ [][FoldNext]_vars

(***************************************************************************)
(* The dependency graph of a snapshot, as the properties speak of it.      *)
(***************************************************************************)
Keys(modules) == Range(modules.keys)

IsRecord(modules, n) == modules.meta[n] # NoneMeta

IsTombstone(modules, n) == modules.meta[n] = NoneMeta

\* the recorded dependency edges of n
Deps(modules, n) ==
    IF IsRecord(modules, n) THEN Range(modules.meta[n].dependencies) ELSE {}

\* the least set that holds S and the dependencies of its members
RECURSIVE Closure(_, _)
Closure(modules, S) ==
    LET T == S \cup UNION {Deps(modules, x) : x \in S}
    IN  IF T = S THEN S ELSE Closure(modules, T)

\* the modules n depends on, directly or through a chain of recorded dependencies
Reaches(modules, n) == Closure(modules, Deps(modules, n))

\* the recorded file of n no longer exists or has another modification time
Changed(modules, dsk, n) ==
    /\ IsRecord(modules, n)
    /\ \/ dsk[modules.meta[n].path] = 0
       \/ dsk[modules.meta[n].path] # modules.meta[n].modification_time

ChangedSet(modules, dsk) == {n \in Keys(modules) : Changed(modules, dsk, n)}

\* n depends, directly or transitively, on a module whose file changed
ReachesChanged(modules, dsk, n) ==
    \E d \in Reaches(modules, n) : Changed(modules, dsk, d)

\* n has to be dirty: its file changed or it reaches a module whose file changed
MustBeDirty(modules, dsk, n) ==
    Changed(modules, dsk, n) \/ ReachesChanged(modules, dsk, n)

\* the number of dependency edges on the longest of the shortest chains that lead from a
\* module to a module whose file changed, L being the modules at distance k at most
RECURSIVE LongestDistance(_, _, _)
LongestDistance(modules, L, k) ==
    LET M == L \cup {n \in Keys(modules) : Deps(modules, n) \cap L # {}}
    IN  IF M = L THEN k ELSE LongestDistance(modules, M, k + 1)

Returned == pc = "returned"

dirty_files == result[1]

cleaned_modules_metadata == result[2]

dirty_paths == result[3]

(***************************************************************************)
(* C1.  When detect_new_and_dirty_files returns, no module is left clean   *)
(* while a module it depends on, directly or through any chain of recorded *)
(* dependencies (cycles included), is marked dirty.                        *)
(***************************************************************************)
C1_DirtinessIsFixpoint ==
    Returned =>
        \A n \in Keys(modules_metadata) :
            module_dirty[n] = None =>
                \A d \in Reaches(modules_metadata, n) : module_dirty[d] = None

\* a module on a dependency cycle is dirty through a chain of two edges at least
C1_Witness ==
    /\ Returned
    /\ \E n \in Keys(modules_metadata) :
          /\ n \in Reaches(modules_metadata, n)
          /\ module_dirty[n] \notin {None, n}
          /\ \A d \in Deps(modules_metadata, n) : ~Changed(modules_metadata, disk, d)

(***************************************************************************)
(* C2.  The marks are exact.  A module is marked with its own name iff it  *)
(* has a record whose file no longer exists or has another modification    *)
(* time; it is marked with another name iff its own file did not change    *)
(* and it reaches, through recorded dependencies, a module whose file      *)
(* changed; every other module is clean.  When the modification time of    *)
(* one file A alone changed, A is marked changed, every transitive         *)
(* dependent of A is marked with A, and the other modules are clean.       *)
(***************************************************************************)
C2_DirtySetExact ==
    Returned =>
        /\ \A n \in Keys(modules_metadata) :
              /\ module_dirty[n] = n <=> Changed(modules_metadata, disk, n)
              /\ module_dirty[n] \notin {None, n} <=>
                     /\ ~Changed(modules_metadata, disk, n)
                     /\ ReachesChanged(modules_metadata, disk, n)
        /\ \A A \in Keys(modules_metadata) :
              ChangedSet(modules_metadata, disk) = {A} =>
                  \A n \in Keys(modules_metadata) :
                      module_dirty[n] =
                          IF n = A \/ A \in Reaches(modules_metadata, n) THEN A ELSE None

\* one file was touched: its module is changed, a dependent is dirty through it, an
\* independent record is clean
C2_Witness ==
    /\ Returned
    /\ \E A, B, C \in Keys(modules_metadata) :
          /\ ChangedSet(modules_metadata, disk) = {A}
          /\ Exists(disk, PathOf(A))
          /\ module_dirty[A] = A
          /\ module_dirty[B] = A /\ B # A
          /\ IsRecord(modules_metadata, C) /\ module_dirty[C] = None

(***************************************************************************)
(* C3.  The propagation loop terminates: every full scan is counted, and   *)
(* the number of scans never exceeds the longest dependency distance from  *)
(* a dirtied module to a module whose file changed plus one, nor the       *)
(* number of snapshot modules plus one; when the bound is reached the loop *)
(* condition is false.  With A depending on B and B on A, A changed leaves *)
(* both A and B dirty.                                                     *)
(***************************************************************************)
C3_PropagationTerminates ==
    pc \in {"propagate", "returned"} =>
        LET bound == LongestDistance(modules_metadata,
                                     ChangedSet(modules_metadata, disk), 0) + 1
        IN  /\ passes <= bound
            /\ passes <= Cardinality(Keys(modules_metadata)) + 1
            /\ passes = bound => ~found_change
            /\ Returned =>
                  \A A, B \in Keys(modules_metadata) :
                      /\ A # B
                      /\ B \in Deps(modules_metadata, A)
                      /\ A \in Deps(modules_metadata, B)
                      /\ module_dirty[A] = A
                      => module_dirty[B] # None

\* a cycle of two modules, one of them changed, and a loop that needed three scans
C3_Witness ==
    /\ Returned
    /\ passes = 3
    /\ \E A, B \in Keys(modules_metadata) :
          /\ A # B
          /\ B \in Deps(modules_metadata, A)
          /\ A \in Deps(modules_metadata, B)
          /\ module_dirty[A] = A
          /\ module_dirty[B] = A

Backing(modules, p) ==
    {n \in Keys(modules) : IsRecord(modules, n) /\ modules.meta[n].path = p}

\* the tags dirty_files gives the path p
TagsOf(df, p) == {df[i].reason : i \in {j \in 1..Len(df) : df[j].path = p}}

C5_DirtyFilesClassified ==
    Returned =>
        /\ \A i \in 1..Len(dirty_files) : dirty_files[i].path \in Range(current_files)
        /\ \A i, j \in 1..Len(dirty_files) :
              i < j => PathRank(dirty_files[i].path) < PathRank(dirty_files[j].path)
        /\ \A cf \in Range(current_files) :
              LET tags == TagsOf(dirty_files, cf)
                  backing == Backing(modules_metadata, cf)
              IN  /\ backing = {} => tags = {"new"}
                  /\ \A n \in backing :
                        /\ Changed(modules_metadata, disk, n) => tags = {"changed"}
                        /\ /\ ~Changed(modules_metadata, disk, n)
                           /\ ReachesChanged(modules_metadata, disk, n)
                           => \E d \in Reaches(modules_metadata, n) :
                                  /\ Changed(modules_metadata, disk, d)
                                  /\ tags = {"dependency " \o d \o " changed"}
                        /\ ~MustBeDirty(modules_metadata, disk, n) => tags = {}

\* one run tags a new file, a changed file and a dependent, and omits a clean file
C5_Witness ==
    /\ Returned
    /\ \E i, j, k \in 1..Len(dirty_files) :
          /\ dirty_files[i].reason = "new"
          /\ dirty_files[j].reason = "changed"
          /\ dirty_files[k].reason \notin {"new", "changed"}
    /\ \E cf \in Range(current_files) : TagsOf(dirty_files, cf) = {}

(***************************************************************************)
(* C6.  The surviving snapshot is exactly the set of snapshot entries that *)
(* are clean and reachable, reachable meaning in the transitive closure    *)
(* over recorded dependency edges of the modules whose recorded path is in *)
(* the current file list; a surviving entry is carried over unmodified and *)
(* in its place, a dirty or unreachable entry is dropped.                  *)
(***************************************************************************)
ReachableFromCurrent(modules, files) ==
    Closure(modules, UNION {Backing(modules, p) : p \in Range(files)})

Survivors(modules, dsk, files) ==
    {n \in ReachableFromCurrent(modules, files) : ~MustBeDirty(modules, dsk, n)}

\* the position of the key n in the dict
Position(keys, n) == CHOOSE i \in 1..Len(keys) : keys[i] = n

AfterRun == pc = "idle" /\ runs >= 1 /\ untouched

\* the records of source files that were removed and that no other module depends on
RemovedSources(modules) ==
    {A \in Keys(modules) :
        /\ IsRecord(modules, A)
        /\ modules.meta[A].path \in in_dir
        /\ ~Exists(disk, modules.meta[A].path)
        /\ \A m \in Keys(modules) \ {A} : A \notin Deps(modules, m)}

C8_DeletedFileForgotten ==
    AfterRun /\ metadata_file.exists =>
        LET modules == on_file.metadata.modules
            files == Enumerate({p \in in_dir : Exists(disk, p)})
        IN  /\ RemovedSources(modules) = {}
            /\ \A n \in Keys(modules) :
                  IsRecord(modules, n) => n \in ReachableFromCurrent(modules, files)

(***************************************************************************)
(* C9.  On a cold start (no metadata.json) every discovered source file is *)
(* tagged "new", and when the run has ended the persisted snapshot holds,  *)
(* for each of those files, a record whose modification time is the one of *)
(* the file.                                                               *)
(***************************************************************************)
C9_ColdStart ==
    /\ Returned /\ cold_start =>
          /\ Len(dirty_files) = Len(current_files)
          /\ \A i \in 1..Len(current_files) :
                dirty_files[i] = [path |-> current_files[i], reason |-> "new"]
    /\ AfterRun /\ cold_start =>
          /\ metadata_file.exists
          /\ \A p \in {q \in in_dir : Exists(disk, q)} :
                \E n \in Keys(on_file.metadata.modules) :
                    /\ IsRecord(on_file.metadata.modules, n)
                    /\ on_file.metadata.modules.meta[n].path = p
                    /\ on_file.metadata.modules.meta[n].modification_time = disk[p]

(***************************************************************************)
(* C10.  A second run with no change to any source file since the run      *)
(* before it yields an empty dirty_files.                                  *)
(***************************************************************************)
C10_SecondRunIdempotent ==
    Returned /\ runs >= 2 /\ untouched => dirty_files = <<>>

(***************************************************************************)
(* C11.  load_modules_metadata on a metadata.json whose generating_version *)
(* is not the version of the running tool returns what it returns when     *)
(* there is no metadata.json: an empty modules map, none of the entries of *)
(* the file; every current file is then tagged "new".                      *)
(***************************************************************************)
\* the file holds the whole text of a metadata
WholeText == on_file.kind \in {"complete", "saved"}

HasLoaded == loaded # NotLoaded

\* every file of the list tagged "new", in the order of the list
AllNew(files) == [i \in 1..Len(files) |-> [path |-> files[i], reason |-> "new"]]

C11_CrossVersionIsEmpty ==
    HasLoaded /\ WholeText /\ on_file.metadata.generating_version # CurrentVersion =>
        /\ loaded = load_modules_metadata(NoFile)
        /\ loaded.raised = "none"
        /\ loaded.value = EmptyModules
        /\ result = <<AllNew(Enumerate({p \in in_dir : Exists(disk, p)})), EmptyModules, {}>>

\* a metadata.json of another release that holds records was loaded, with files on disk
C11_Witness ==
    /\ HasLoaded
    /\ on_file.kind = "complete"
    /\ on_file.metadata.generating_version = OldVersion
    /\ \E n \in Keys(on_file.metadata.modules) : IsRecord(on_file.metadata.modules, n)
    /\ Len(result[1]) = Cardinality(Paths)

(***************************************************************************)
(* C12.  load_modules_metadata never raises: when metadata.json is         *)
(* missing, cannot be parsed or has another generating_version, it returns *)
(* an empty snapshot.                                                      *)
(***************************************************************************)
C12_LoadNeverFails ==
    HasLoaded =>
        /\ loaded.raised = "none"
        /\ \/ on_file.kind \in {"missing", "truncated"}
           \/ on_file.metadata.generating_version # CurrentVersion
           => loaded.value = EmptyModules

(***************************************************************************)
(* C13.  The metadata.json that a run saves is the whole text of the       *)
(* snapshot, tagged with the version of the running tool, so that a load   *)
(* right after the save returns the modules that were saved.               *)
(***************************************************************************)
C13_SaveThenLoadIsIdentity ==
    on_file.kind = "saved" =>
        /\ metadata_file = File(dump_json(on_file.metadata))
        /\ on_file.metadata.generating_version = CurrentVersion
        /\ HasLoaded => loaded.raised = "none" /\ loaded.value = on_file.metadata.modules

(***************************************************************************)
(* C14.  When the process is killed during save_modules_metadata, a later  *)
(* load_modules_metadata does not raise and returns either the snapshot    *)
(* that was being saved or an empty snapshot.                              *)
(***************************************************************************)
C14_KilledSaveIsHarmless ==
    HasLoaded /\ on_file.kind = "truncated" =>
        /\ loaded.raised = "none"
        /\ loaded.value \in {on_file.metadata.modules, EmptyModules}

(***************************************************************************)
(* C16.  No step of a run that comes before its save changes the           *)
(* metadata.json that the run before it left: a run that is interrupted    *)
(* leaves the old snapshot in place.                                       *)
(***************************************************************************)
C16_OldSnapshotKept == [][metadata_file' = metadata_file]_vars

(***************************************************************************)
(* C16, amended.  The only step of a run before its save that changes      *)
(* metadata.json is the start of a run with force_rebuild, which removes   *)
(* the output directory; a run without force_rebuild that is interrupted   *)
(* leaves the old snapshot in place.                                       *)
(***************************************************************************)
C16_OldSnapshotKeptUnlessForced ==
    [][metadata_file' # metadata_file =>
           pc = "idle" /\ pc' = "propagate" /\ force_rebuild' /\ metadata_file' = NoFile]_vars

\* a run without force_rebuild came to its end by an exception, and the metadata.json that
\* was there before it is still there
C16_Witness ==
    /\ pc = "idle"
    /\ runs >= 1
    /\ last_exit = "ValueError"
    /\ on_file.kind = "complete"
    /\ metadata_file = File(dump_json(on_file.metadata))

(***************************************************************************)
(* C19.  After an import statement of whatever form that a module A        *)
(* executes and that loads the module B it names, module_dependencies[A]   *)
(* holds B; and when the statement is a from-import that names an          *)
(* attribute of B that is a module, module_dependencies[A] holds that      *)
(* module too.                                                             *)
(***************************************************************************)
Imported == last_import # NoImport /\ last_import.raised = "none"

\* the module that the last import statement names
Target == Resolve(last_import.name, last_import.globals, last_import.level).v

\* the modules that the from-import names as attributes of its target
NamedModules ==
    LET st == [module_dependencies |-> module_dependencies, sys_modules |-> sys_modules]
    IN  {GetAttr(st, Target, last_import.fromlist[i]).v :
            i \in {j \in 1..Len(last_import.fromlist) :
                      GetAttr(st, Target, last_import.fromlist[j]).type = "module"}}

C19_EveryImportRecorded ==
    Imported /\ last_import.caller # "" =>
        /\ last_import.caller \in DOMAIN module_dependencies
        /\ Target \in sys_modules
        /\ Target \in module_dependencies[last_import.caller]
        /\ NamedModules \subseteq module_dependencies[last_import.caller]

(***************************************************************************)
(* C20.  When neither the globals nor the locals of a call hold a string   *)
(* __name__, the call records no edge, returns the module the original     *)
(* import function returns, and raises only what that function raises.     *)
(***************************************************************************)
HasName(d) == d.kind = "dict" /\ DictGet(d, "__name__").type = "str"

Called == last_import # NoImport

C20_UnknownCallerRecordsNothing ==
    Called /\ ~HasName(last_import.globals) /\ ~HasName(last_import.locals) =>
        LET o == old_fn(last_import.before, last_import.name, last_import.globals,
                        last_import.locals, last_import.fromlist, last_import.level)
        IN  /\ last_import.raised = o.raised
            /\ last_import.returned = o.returned
            /\ sys_modules = o.st.sys_modules
            /\ module_dependencies = o.st.module_dependencies
            /\ DOMAIN module_dependencies \subseteq Universe

\* a from-import without globals and locals loaded a package and its submodule and
\* returned the package
C20_Witness ==
    /\ Called
    /\ last_import.globals = NoDict
    /\ last_import.locals = NoDict
    /\ last_import.raised = "none"
    /\ last_import.returned = "pkg"
    /\ "pkg.sub" \in sys_modules \ last_import.before.sys_modules

(***************************************************************************)
(* C17.  When a run over an output directory that an earlier run filled    *)
(* (an incremental run, after source files were touched, edited, deleted   *)
(* or added) has ended, it has succeeded and the types files of the output *)
(* directory are those that a run from scratch over the source files as    *)
(* they are now produces.                                                  *)
(***************************************************************************)
C17_IncrementalEqualsScratch ==
    AfterRun /\ ~cold_start =>
        /\ last_exit = "none"
        /\ types_json = ScratchOutput({p \in in_dir : Exists(disk, p)})

(***************************************************************************)
(* C18.  update_qmlregistrar_files keeps a stored descriptor exactly when  *)
(* the source file it was generated from is a current file outside the     *)
(* dirty set, and drops it when that file is in the dirty set; a QML       *)
(* module whose resulting list equals the stored one is left untouched:    *)
(* its types file is not rewritten and the registrar is not run for it.    *)
(***************************************************************************)
Updated == update_result.raised = "none"

\* the descriptors that the types file of a QML module held before the call
StoredData(uri) == Range(update_args.types_json[uri].data)

\* the file a descriptor was generated from
InputFile(cls) == Abs(ClassFile(cls.className))

C18_CleanDescriptorsKept ==
    Updated =>
        \A uri \in Uris :
            /\ \A cls \in StoredData(uri) :
                  /\ cls \in Range(update_result.kept[uri]) <=>
                         InputFile(cls) \in update_args.all_files \ update_args.dirty_files
                  /\ InputFile(cls) \in update_args.dirty_files =>
                         cls \notin Range(update_result.kept[uri])
            /\ types_json[uri] = update_args.types_json[uri] =>
                  /\ uri \notin update_result.written
                  /\ uri \notin update_result.registrar_runs

(***************************************************************************)
(* C26.  During the propagation of detect_new_and_dirty_files a mark only  *)
(* goes from clean to dirty and a dirty mark is never changed afterwards;  *)
(* the cause recorded for a dirty module is always a module that is marked *)
(* with its own name (the module whose file changed), not the dependency   *)
(* through which the dirtiness arrived; so every tag "dependency X         *)
(* changed" names a module X that is marked changed.                       *)
(***************************************************************************)
\* the causes recorded in md are modules marked with their own name
CausesAreRoots(md) ==
    \A n \in DOMAIN md : md[n] # None => md[n] \in DOMAIN md /\ md[md[n]] = md[n]

\* the tags of df that name a dependency name modules marked changed in md
TagsNameRoots(df, md) ==
    \A i \in 1..Len(df) :
        df[i].reason \notin {"new", "changed"} =>
            \E X \in DOMAIN md : md[X] = X /\ df[i].reason = "dependency " \o X \o " changed"

C26_MarksMonotoneCausesRoots ==
    [][/\ pc' \in {"propagate", "returned"} => CausesAreRoots(module_dirty')
       /\ pc = "propagate" /\ pc' \in {"propagate", "returned"} =>
              \A n \in DOMAIN module_dirty :
                  module_dirty[n] # None => module_dirty'[n] = module_dirty[n]
       /\ pc' = "returned" => TagsNameRoots(result'[1], module_dirty')]_vars

\* a module was marked in an earlier scan, with a cause that is none of its dependencies,
\* and another scan has run since
C26_Witness ==
    /\ pc = "propagate"
    /\ passes >= 2
    /\ \E n \in Keys(modules_metadata) :
          /\ module_dirty[n] \notin {None, n}
          /\ module_dirty[n] \notin Deps(modules_metadata, n)

(***************************************************************************)
(* C27.  When detect_new_and_dirty_files returns (the records of the       *)
(* snapshot having pairwise distinct paths), each current file is in       *)
(* exactly one of two cases: it is a key of dirty_files, or the module it  *)
(* backs is a key of the surviving snapshot; never both, never neither.    *)
(***************************************************************************)
\* the paths that are keys of the dict df
DirtyKeys(df) == {df[i].path : i \in 1..Len(df)}

\* the files that back a record of the snapshot
BackedFiles(modules) ==
    {modules.meta[n].path : n \in {k \in Keys(modules) : IsRecord(modules, k)}}

C27_DirtyOrSurviving ==
    Returned =>
        \A i \in 1..Len(current_files) :
            current_files[i] \in DirtyKeys(dirty_files) <=>
                current_files[i] \notin BackedFiles(cleaned_modules_metadata)

\* a dirty file, a new file and a clean file in one run
C27_Witness ==
    /\ Returned
    /\ \E i, j, k \in 1..Len(current_files) :
          /\ current_files[i] \in DirtyKeys(dirty_files)
          /\ current_files[i] \in BackedFiles(modules_metadata)
          /\ current_files[j] \in DirtyKeys(dirty_files)
          /\ current_files[j] \notin BackedFiles(modules_metadata)
          /\ current_files[k] \in BackedFiles(cleaned_modules_metadata)

(***************************************************************************)
(* C22.  recursive_module_metadata_addition terminates for every           *)
(* dependency map, cyclic ones included (the number of calls is at most    *)
(* one more than the number of traced edges), and on return the map holds  *)
(* an entry for the starting module and for every module reachable from it *)
(* through traced edges, the walk stopping at names already present: a     *)
(* record with the current modification time, the path and the sorted      *)
(* dependencies when the module is loaded and its file exists, a tombstone *)
(* otherwise.                                                              *)
(***************************************************************************)
HasFolded == fold_log # NoFold

\* the module is loaded and its file exists
Recordable(n) == n \in sys_modules /\ Exists(disk, PathOf(n))

\* the entry the fold writes for a module
FreshEntry(n) ==
    IF Recordable(n)
    THEN PythonModuleMetadata(disk[PathOf(n)], PathOf(n), Sorted(module_dependencies[n]))
    ELSE NoneMeta

\* the names the walk reaches from the names V, stopping at the keys of before and at the
\* modules that get a tombstone
RECURSIVE Walk(_, _)
Walk(V, before) ==
    LET W == V \cup (UNION {module_dependencies[v] : v \in {x \in V : Recordable(x)}}
                     \ Keys(before))
    IN  IF W = V THEN V ELSE Walk(W, before)

\* the names that the last call had to add
Reached == Walk({fold_log.module_name} \ Keys(fold_log.before), fold_log.before)

IsPrefix(s, t) == Len(s) <= Len(t) /\ \A i \in 1..Len(s) : s[i] = t[i]

C30_FoldOnlyAdds ==
    HasFolded =>
        /\ IsPrefix(fold_log.before.keys, fold_metadata.keys)
        /\ \A n \in Keys(fold_log.before) : fold_metadata.meta[n] = fold_log.before.meta[n]
        /\ fold_log.module_name \in Keys(fold_log.before) => fold_metadata = fold_log.before

\* the walk met an entry that is out of date, as a dependency of a module it added
C30_Witness ==
    /\ HasFolded
    /\ \E n \in Keys(fold_log.before), m \in Reached :
          /\ Recordable(m)
          /\ n \in module_dependencies[m]
          /\ fold_log.before.meta[n] # FreshEntry(n)
          /\ fold_metadata.meta[n] = fold_log.before.meta[n]

(***************************************************************************)
(* C25.  The map that the fold builds for save_modules_metadata is         *)
(* dependency-closed: each name in the dependency list of a record is      *)
(* itself a key of the map, as a record or as a tombstone; so the lookups  *)
(* module_dirty[dep] and modules[name] of the next run's                   *)
(* detect_new_and_dirty_files find their key.                              *)
(***************************************************************************)
\* every dependency of a record is a key
DependencyClosed(modules) ==
    \A n \in Keys(modules) :
        IsRecord(modules, n) => Range(modules.meta[n].dependencies) \subseteq Keys(modules)

C23_ReimportedRecordRewritten ==
    AfterRun =>
        \A p \in {q \in in_dir : Exists(disk, q)} :
            /\ on_file.kind \in {"complete", "saved"}
            /\ \E n \in Keys(on_file.metadata.modules) :
                  /\ IsRecord(on_file.metadata.modules, n)
                  /\ on_file.metadata.modules.meta[n].path = p
                  /\ on_file.metadata.modules.meta[n].modification_time = disk[p]

(***************************************************************************)
(* C21.  In one run the driver calls the import for exactly the files in   *)
(* dirty_files, once each, in the order in which they appear in the        *)
(* enumeration of the current files (the order of dirty_files), and for no *)
(* file whose module was classified clean: when the run ends, the files it *)
(* has imported are the keys of dirty_files, in order.                     *)
(***************************************************************************)
C21_ImportsExactlyDirtyFiles ==
    [][pc = "returned" /\ pc' = "idle" =>
          import_calls = [i \in 1..Len(dirty_files) |-> dirty_files[i].path]]_vars

(***************************************************************************)
(* C29.  After update_qmlregistrar_files no types file holds two           *)
(* descriptors for the same class: the stored descriptor of a class whose  *)
(* file was imported in this run is dropped before the descriptors of the  *)
(* classes registered in this run are added.                               *)
(***************************************************************************)
C29_OneDescriptorPerClass ==
    Updated =>
        \A uri \in Uris :
            \A i, j \in 1..Len(types_json[uri].data) :
                types_json[uri].data[i].className = types_json[uri].data[j].className => i = j

(***************************************************************************)
(* C24.  When the reconciliation leaves a QML module without a descriptor, *)
(* its types json, registrations cpp and qmltypes files are deleted and no *)
(* qmldir is written for it; when update_qmlregistrar_files has returned,  *)
(* a qmldir exists in exactly the directories of the QML modules that      *)
(* still have at least one descriptor.                                     *)
(***************************************************************************)
\* the number of descriptors that the reconciliation leaves for a QML module: the stored
\* ones that were kept and one for each class registered in this run
DescriptorsLeft(uri) ==
    Len(update_result.kept[uri])
    + Cardinality({cls \in update_args.registered_classes : ClassUri(cls) = uri})

C24_EmptyModuleRemoved ==
    Updated =>
        \A uri \in Uris :
            /\ DescriptorsLeft(uri) = 0 =>
                  /\ ~types_json[uri].exists
                  /\ uri \notin update_result.generated
                  /\ uri \notin update_result.qmldir
            /\ uri \in update_result.qmldir <=> DescriptorsLeft(uri) >= 1

\* the last descriptor of M went away, its files were deleted, and N kept its qmldir
C24_Witness ==
    /\ Updated
    /\ update_args.types_json["M"].exists
    /\ "M" \in update_args.qmldir
    /\ "M" \in update_result.removed
    /\ DescriptorsLeft("N") >= 1
    /\ "N" \in update_result.qmldir

(***************************************************************************)
(* C28.  When a run has ended, with or without an error, and the persisted *)
(* snapshot records the module of a source file with the current           *)
(* modification time of the file, the artifacts have been reconciled       *)
(* against that version of the file: a class that the file registered has  *)
(* its fresh descriptor and no other in the types file of its QML module,  *)
(* and the files of that QML module were generated; a class that the       *)
(* file, executed as a dirty file, no longer registers has no descriptor.  *)
(***************************************************************************)
\* the descriptors that the types files hold for a class
DescriptorsOf(cls) ==
    {d \in Range(types_json[ClassUri(cls)].data) : d.className = cls}

\* the artifacts agree with what the run saw in the file p
Reconciled(p) ==
    \A cls \in {c \in Classes : ClassFile(c) = p} :
        IF cls \in update_args.registered_classes
        THEN /\ DescriptorsOf(cls) = {Module(cls, update_args.content,
                                             update_args.file_relative_path)}
             /\ ClassUri(cls) \in update_result.generated
        ELSE Abs(p) \in update_args.dirty_files => DescriptorsOf(cls) = {}

C28_SnapshotImpliesReconciled ==
    update_result # NotUpdated =>
        \A n \in Range(on_file.metadata.modules.keys) :
            LET meta == on_file.metadata.modules.meta[n]
            IN  meta # NoneMeta /\ meta.modification_time = StMTime(disk, meta.path)
                    => Reconciled(meta.path)

====
